---- MODULE Spec2Model ----
(***************************************************************************)
(* BlackRoad payroll system: PayrollDB (SQLite tables employees,            *)
(* deductions, paystubs) and PayrollService (withhold_taxes,               *)
(* calculate_net_pay, generate_paystub, bulk_process).                     *)
(*                                                                         *)
(* Money is held in integer cents (a Decimal with two places is cents/100).*)
(* Rates are held as numerator/denominator pairs, so that a product        *)
(* followed by quantize(PRECISION) is an exact integer division with the   *)
(* rounding mode the code names.                                           *)
(*                                                                         *)
(* An operation that raises is modelled by its outcome record:             *)
(* [ok |-> FALSE, error |-> <the exception>]; one that returns by          *)
(* [ok |-> TRUE, ...].                                                     *)
(***************************************************************************)
EXTENDS Integers, Sequences, FiniteSets, TLC

\* ------------------------------------------------------------------------
\* Decimal arithmetic
\* ------------------------------------------------------------------------

Abs(x) == IF x < 0 THEN -x ELSE x

Min(a, b) == IF a <= b THEN a ELSE b

Max(a, b) == IF a >= b THEN a ELSE b

\* Integer part and remainder of x * num / den for x >= 0, computed without
\* forming x * num (which may not fit the model checker's integers).
MulDivQuot(x, num, den) == (x \div den) * num + ((x % den) * num) \div den

MulDivRem(x, num, den) == ((x % den) * num) % den

\* (x * num / den).quantize(PRECISION, rounding=ROUND_HALF_UP):
\* ties go away from zero.
QuantizeHalfUp(x, num, den) ==
    LET a == Abs(x)
        q == MulDivQuot(a, num, den)
        r == MulDivRem(a, num, den)
        m == IF 2 * r >= den THEN q + 1 ELSE q
    IN  IF x < 0 THEN -m ELSE m

\* (x * num / den).quantize(PRECISION) under the default decimal context,
\* whose rounding is ROUND_HALF_EVEN: ties go to the even cent.
QuantizeDefault(x, num, den) ==
    LET a == Abs(x)
        q == MulDivQuot(a, num, den)
        r == MulDivRem(a, num, den)
        m == IF 2 * r > den THEN q + 1
             ELSE IF 2 * r < den THEN q
             ELSE IF q % 2 = 0 THEN q ELSE q + 1
    IN  IF x < 0 THEN -m ELSE m

\* ------------------------------------------------------------------------
\* FICA / federal constants (2024), in cents and as rate fractions
\* ------------------------------------------------------------------------

CENTS == 100

SS_RATE_NUM == 62
SS_RATE_DEN == 1000
SS_WAGE_BASE == 16860000
MEDICARE_RATE_NUM == 145
MEDICARE_RATE_DEN == 10000
ADDITIONAL_MEDICARE_RATE_NUM == 9
ADDITIONAL_MEDICARE_RATE_DEN == 1000
ADDITIONAL_MEDICARE_THRESHOLD == 20000000
W4_ALLOWANCE_2024 == 430000
STATE_RATE_NUM == 5
STATE_RATE_DEN == 100
FEDERAL_PERIODS == 26
DEFAULT_STANDARD_DEDUCTION == 1460000
PERCENT == 100
REGULAR_HOURS == 40

\* A bracket is (min_inc, max_inc, rate in percent); open marks max_inc = None.
Bracket(lo, hi, rate) == [min_inc |-> lo * CENTS, max_inc |-> hi * CENTS, rate |-> rate, open |-> FALSE]

TopBracket(lo, rate) == [min_inc |-> lo * CENTS, max_inc |-> 0, rate |-> rate, open |-> TRUE]

FEDERAL_BRACKETS_SINGLE_2024 ==
    << Bracket(0, 11600, 10),
       Bracket(11600, 47150, 12),
       Bracket(47150, 100525, 22),
       Bracket(100525, 191950, 24),
       Bracket(191950, 243725, 32),
       Bracket(243725, 609350, 35),
       TopBracket(609350, 37) >>

FEDERAL_BRACKETS_MFJ_2024 ==
    << Bracket(0, 23200, 10),
       Bracket(23200, 94300, 12),
       Bracket(94300, 201050, 22),
       Bracket(201050, 383900, 24),
       Bracket(383900, 487450, 32),
       Bracket(487450, 731200, 35),
       TopBracket(731200, 37) >>

FilingStatuses == {"single", "married", "head_of_household", "unknown"}

\* STANDARD_DEDUCTIONS.get(filing_status, Decimal("14600"))
STANDARD_DEDUCTIONS(filing_status) ==
    CASE filing_status = "single" -> 14600 * CENTS
      [] filing_status = "married" -> 29200 * CENTS
      [] filing_status = "head_of_household" -> 21900 * CENTS
      [] OTHER -> DEFAULT_STANDARD_DEDUCTION

periods_per_year(pay_frequency) ==
    CASE pay_frequency = "weekly" -> 52
      [] pay_frequency = "biweekly" -> 26
      [] pay_frequency = "semi_monthly" -> 24
      [] pay_frequency = "monthly" -> 12

\* ------------------------------------------------------------------------
\* PayrollService.withhold_taxes
\* ------------------------------------------------------------------------

AdjAnnual(annual_gross, filing_status, w4_allowances) ==
    Max(0, annual_gross - W4_ALLOWANCE_2024 * w4_allowances - STANDARD_DEDUCTIONS(filing_status))

SelectBrackets(filing_status) ==
    IF filing_status = "married" THEN FEDERAL_BRACKETS_MFJ_2024 ELSE FEDERAL_BRACKETS_SINGLE_2024

\* One bracket's contribution: (in_bracket * rate).quantize(ROUND_HALF_UP).
BracketAmount(b, adj_annual) ==
    LET upper      == IF b.open THEN adj_annual ELSE b.max_inc
        in_bracket == Min(adj_annual, upper) - b.min_inc
    IN  IF in_bracket <= 0 THEN 0 ELSE QuantizeHalfUp(in_bracket, b.rate, PERCENT)

\* The loop over the brackets, from bracket i on, with the running annual_tax.
RECURSIVE BracketWalk(_, _, _, _)
BracketWalk(brackets, i, adj_annual, annual_tax) ==
    IF i > Len(brackets) THEN annual_tax
    ELSE IF adj_annual <= brackets[i].min_inc THEN annual_tax
    ELSE BracketWalk(brackets, i + 1, adj_annual,
                     annual_tax + BracketAmount(brackets[i], adj_annual))

AnnualTax(brackets, adj_annual) == BracketWalk(brackets, 1, adj_annual, 0)

SocialSecurity(gross, ytd_ss) ==
    LET remaining_ss_base == Max(0, SS_WAGE_BASE - ytd_ss)
        ss_taxable        == Min(gross, remaining_ss_base)
    IN  QuantizeHalfUp(ss_taxable, SS_RATE_NUM, SS_RATE_DEN)

Medicare(gross, ytd_ss) ==
    LET base          == QuantizeHalfUp(gross, MEDICARE_RATE_NUM, MEDICARE_RATE_DEN)
        ytd_with_this == ytd_ss + gross
    IN  IF ytd_with_this > ADDITIONAL_MEDICARE_THRESHOLD
        THEN base + QuantizeHalfUp(Min(gross, ytd_with_this - ADDITIONAL_MEDICARE_THRESHOLD),
                                   ADDITIONAL_MEDICARE_RATE_NUM, ADDITIONAL_MEDICARE_RATE_DEN)
        ELSE base

\* The parameters of withhold_taxes: the local names bound when its body
\* starts.
WithholdParameters ==
    {"self", "gross", "annual_gross", "filing_status", "w4_allowances", "ytd_ss"}

\* "from decimal import Decimal" stands in the body of withhold_taxes, after
\* the bracket walk. An import statement binds its name in the scope it stands
\* in, so Decimal is a local variable of the whole body (a module-level name
\* of the same spelling is not looked at), unbound until that statement runs.
\* "from decimal import Decimal as D" in the Medicare part does the same for D.
WithholdBodyImports == {"Decimal", "D"}

\* Reading a local name that is not yet bound raises UnboundLocalError. The
\* first statement to read Decimal is adj_annual = max(Decimal("0"), ...), the
\* second statement of the body.
LocalBoundAtEntry(name) ==
    name \in WithholdParameters \/ name \notin WithholdBodyImports

\* federal_period, ss_tax and medicare_tax: the returned triple, with the
\* locals adj_annual and annual_tax kept beside it.
WithholdReturn(adj_annual, annual_tax, gross, ytd_ss) ==
    [ ok           |-> TRUE,
      adj_annual   |-> adj_annual,
      annual_tax   |-> annual_tax,
      federal_tax  |-> QuantizeHalfUp(annual_tax, 1, FEDERAL_PERIODS),
      ss_tax       |-> SocialSecurity(gross, ytd_ss),
      medicare_tax |-> Medicare(gross, ytd_ss) ]

\* The body from the bracket walk on, were it to run.
WithholdFrom(adj_annual, filing_status, gross, ytd_ss) ==
    WithholdReturn(adj_annual, AnnualTax(SelectBrackets(filing_status), adj_annual),
                   gross, ytd_ss)

\* The body from adj_annual on, were it to run.
WithholdBody(gross, annual_gross, filing_status, w4_allowances, ytd_ss) ==
    WithholdFrom(AdjAnnual(annual_gross, filing_status, w4_allowances),
                 filing_status, gross, ytd_ss)

withhold_taxes(gross, annual_gross, filing_status, w4_allowances, ytd_ss) ==
    IF LocalBoundAtEntry("Decimal")
    THEN WithholdBody(gross, annual_gross, filing_status, w4_allowances, ytd_ss)
    ELSE [ ok |-> FALSE, error |-> "UnboundLocalError" ]

\* ------------------------------------------------------------------------
\* Bounds and input sets
\* ------------------------------------------------------------------------

MaxDeductions == 1
MaxPaystubs == 2
MaxBatch == 2
MaxCalcDeductions == 2
MaxStoredPaystubs == 2

\* Direct ledger updates per employee.
MaxYtdUpdates == 1

\* The ids add_employee hands out: one employee for the ledger runs, one per
\* batch position for the bulk runs.
LedgerIds == {1}

BulkIds == 1 .. MaxBatch

Years == {2024, 2025}

Statuses == {"active", "terminated", "on_leave"}

\* Arguments of add_employee: salary, hourly_rate (0 is None: add_employee and
\* save_employee both turn a falsy rate into None), pay_frequency,
\* filing_status, w4_allowances.
Profiles ==
    { [salary |-> 52000 * CENTS, hourly_rate |-> 0, pay_frequency |-> "biweekly",
       filing_status |-> "single", w4_allowances |-> 1],
      [salary |-> 2400000 * CENTS, hourly_rate |-> 0, pay_frequency |-> "monthly",
       filing_status |-> "married", w4_allowances |-> 0],
      [salary |-> 40000 * CENTS, hourly_rate |-> 2501, pay_frequency |-> "weekly",
       filing_status |-> "head_of_household", w4_allowances |-> 2],
      [salary |-> 60000 * CENTS + 6, hourly_rate |-> 0, pay_frequency |-> "monthly",
       filing_status |-> "unknown", w4_allowances |-> 1] }

PRE_TAX_TYPES == {"pre_tax_401k", "pre_tax_hsa", "pre_tax_fsa", "pre_tax_health"}

POST_TAX_TYPES == {"post_tax_roth", "post_tax_garnishment", "post_tax_other"}

\* Deductions a caller saves: type, amount (cents, or percent of gross when
\* is_percentage), active flag.
DeductionTemplates ==
    { [deduction_type |-> "pre_tax_401k", amount |-> 200 * CENTS, is_percentage |-> FALSE, active |-> TRUE],
      [deduction_type |-> "pre_tax_401k", amount |-> 10, is_percentage |-> TRUE, active |-> TRUE],
      [deduction_type |-> "post_tax_garnishment", amount |-> 150 * CENTS, is_percentage |-> FALSE, active |-> TRUE],
      [deduction_type |-> "post_tax_roth", amount |-> 5, is_percentage |-> TRUE, active |-> TRUE],
      [deduction_type |-> "pre_tax_health", amount |-> 50 * CENTS, is_percentage |-> FALSE, active |-> FALSE],
      [deduction_type |-> "pre_tax_hsa", amount |-> 3000 * CENTS, is_percentage |-> FALSE, active |-> TRUE] }

\* Optional[Decimal] arguments: <<>> is None, <<h>> is the value h (whole hours).
HoursArgs == { <<>>, <<40>>, <<43>> }

OvertimeArgs == { <<>>, <<5>> }

\* What the storage layer does to one run: nothing, or an exception out of
\* save_paystub, or an exception out of update_ytd (database locked, I/O error).
Faults == {"none", "save_paystub", "update_ytd"}

\* ------------------------------------------------------------------------
\* State
\* ------------------------------------------------------------------------

VARIABLES
    employees,   \* table employees: id -> row
    deductions,  \* table deductions: rows in insertion order
    paystubs,    \* table paystubs: rows in insertion order
    held,        \* the Employee object a caller holds for each id
    resaved,     \* ids whose row a later save_employee has replaced
    runs,        \* the paystubs returned by the successful runs, in order
    last,        \* the last service call: its arguments, outcome and return value
    wt,          \* the last direct call of withhold_taxes
    wtPrev,      \* the bracket walk of the call before it
    procs        \* the concurrent payroll processes: position and local objects

vars == <<employees, deductions, paystubs, held, resaved, runs, last, wt, wtPrev, procs>>

NoCall == [op |-> "none"]

NoWithhold == [called |-> FALSE]

\* ------------------------------------------------------------------------
\* Employee and PayrollDB
\* ------------------------------------------------------------------------

\* Employee(...) as add_employee builds it: ACTIVE, the five YTD fields 0.
NewEmployee(id, p) ==
    [ id |-> id, salary |-> p.salary, hourly_rate |-> p.hourly_rate,
      pay_frequency |-> p.pay_frequency, filing_status |-> p.filing_status,
      w4_allowances |-> p.w4_allowances, status |-> "active",
      ytd_gross |-> 0, ytd_federal_tax |-> 0, ytd_ss_tax |-> 0,
      ytd_medicare_tax |-> 0, ytd_deductions |-> 0 ]

is_hourly(employee) == employee.hourly_rate # 0

period_gross(employee) ==
    QuantizeDefault(employee.salary, 1, periods_per_year(employee.pay_frequency))

RECURSIVE NumDigits(_)
NumDigits(x) == IF x < 10 THEN 1 ELSE 1 + NumDigits(x \div 10)

RECURSIVE Pow10(_)
Pow10(k) == IF k = 0 THEN 1 ELSE 10 * Pow10(k - 1)

SQLITE_REAL_DIGITS == 15

\* CAST(x AS TEXT) of a REAL: SQLite prints 15 significant digits.
CastRealAsText(x) ==
    IF NumDigits(Abs(x)) <= SQLITE_REAL_DIGITS THEN x
    ELSE LET p == Pow10(NumDigits(Abs(x)) - SQLITE_REAL_DIGITS)
         IN  QuantizeHalfUp(x, 1, p) * p

\* CAST(CAST(col AS REAL) + ? AS TEXT)
SqlAdd(col, delta) == CastRealAsText(col + delta)

\* The UPDATE, were it to lack its WHERE clause.
UpdateYtdEveryRow(table, emp_id, gross, federal, ss, medicare, deds) ==
    [ id \in DOMAIN table |->
        [ table[id] EXCEPT
            !.ytd_gross = SqlAdd(@, gross),
            !.ytd_federal_tax = SqlAdd(@, federal),
            !.ytd_ss_tax = SqlAdd(@, ss),
            !.ytd_medicare_tax = SqlAdd(@, medicare),
            !.ytd_deductions = SqlAdd(@, deds) ] ]

\* PayrollDB.update_ytd: UPDATE employees SET ... WHERE id = emp_id
update_ytd(table, emp_id, gross, federal, ss, medicare, deds) ==
    [ id \in DOMAIN table |->
        IF id = emp_id
        THEN [ table[id] EXCEPT
                 !.ytd_gross = SqlAdd(@, gross),
                 !.ytd_federal_tax = SqlAdd(@, federal),
                 !.ytd_ss_tax = SqlAdd(@, ss),
                 !.ytd_medicare_tax = SqlAdd(@, medicare),
                 !.ytd_deductions = SqlAdd(@, deds) ]
        ELSE table[id] ]

\* PayrollDB.get_deductions: the active rows of one employee
get_deductions(table, emp_id) ==
    SelectSeq(table, LAMBDA d : d.employee_id = emp_id /\ d.active)

\* ------------------------------------------------------------------------
\* PayrollService.calculate_net_pay
\* ------------------------------------------------------------------------

RECURSIVE SumSeq(_)
SumSeq(s) == IF s = <<>> THEN 0 ELSE Head(s) + SumSeq(Tail(s))

\* amt = (gross * ded.amount / 100).quantize(PRECISION) if ded.is_percentage
\*       else ded.amount
DeductionAmount(ded, gross) ==
    IF ded.is_percentage THEN QuantizeDefault(gross, ded.amount, PERCENT) ELSE ded.amount

RECURSIVE BucketTotal(_, _, _)
BucketTotal(deds, gross, pre) ==
    IF deds = <<>> THEN 0
    ELSE (IF (Head(deds).deduction_type \in PRE_TAX_TYPES) = pre
          THEN DeductionAmount(Head(deds), gross) ELSE 0)
         + BucketTotal(Tail(deds), gross, pre)

\* The hourly branch: regular, overtime and gross.
HourlyGross(employee, hours, overtime_hours) ==
    LET regular  == Min(hours[1], REGULAR_HOURS)
        overtime == Max(0, hours[1] - REGULAR_HOURS)
                    + (IF overtime_hours = <<>> THEN 0 ELSE overtime_hours[1])
    IN  [ regular  |-> <<regular>>,
          overtime |-> <<overtime>>,
          gross    |-> QuantizeDefault(2 * regular * employee.hourly_rate
                                       + 3 * overtime * employee.hourly_rate, 1, 2) ]

GrossPay(employee, hours, overtime_hours) ==
    IF is_hourly(employee) /\ hours # <<>>
    THEN HourlyGross(employee, hours, overtime_hours)
    ELSE [ regular |-> <<>>, overtime |-> <<>>, gross |-> period_gross(employee) ]

\* net = gross - pre_tax_total - total_taxes - post_tax_total
NetPay(gross, pre_tax_total, total_taxes, post_tax_total) ==
    gross - pre_tax_total - total_taxes - post_tax_total

\* The guard, were it to name the terminated status alone.
NotActiveTerminatedOnly(employee) == employee.status = "terminated"

\* if employee.status != EmployeeStatus.ACTIVE: raise ValueError
NotActive(employee) == employee.status # "active"

\* The arguments of self.withhold_taxes(taxable_gross, annual_taxable,
\* employee.filing_status, employee.w4_allowances, employee.ytd_ss_tax).
TaxArgs(employee, taxable_gross) ==
    [ gross |-> taxable_gross,
      annual_gross |-> taxable_gross * periods_per_year(employee.pay_frequency),
      filing_status |-> employee.filing_status,
      w4_allowances |-> employee.w4_allowances,
      ytd_ss |-> employee.ytd_ss_tax ]

\* The arguments calculate_net_pay hands to withhold_taxes.
WithholdArgs(employee, deds_table, hours, overtime_hours) ==
    LET gross == GrossPay(employee, hours, overtime_hours).gross
    IN  TaxArgs(employee,
                gross - BucketTotal(get_deductions(deds_table, employee.id), gross, TRUE))

WithholdWith(a) ==
    withhold_taxes(a.gross, a.annual_gross, a.filing_status, a.w4_allowances, a.ytd_ss)

\* state_tax = (taxable_gross * state_rate).quantize(ROUND_HALF_UP)
StateTax(taxable_gross) == QuantizeHalfUp(taxable_gross, STATE_RATE_NUM, STATE_RATE_DEN)

\* total_taxes = federal_tax + ss_tax + medicare_tax + state_tax
TotalTaxes(w, state_tax) == w.federal_tax + w.ss_tax + w.medicare_tax + state_tax

\* The statements after the call of withhold_taxes, w being its outcome: an
\* exception out of the call leaves calculate_net_pay; otherwise state tax,
\* totals, net and the returned dict.
NetPayResult(g, pre_tax_total, post_tax_total, w) ==
    IF ~w.ok
    THEN [ ok |-> FALSE, error |-> w.error ]
    ELSE [ ok |-> TRUE,
           gross |-> g.gross,
           regular_hours |-> g.regular,
           overtime_hours |-> g.overtime,
           pre_tax_deductions |-> pre_tax_total,
           taxable_gross |-> g.gross - pre_tax_total,
           federal_tax |-> w.federal_tax,
           state_tax |-> StateTax(g.gross - pre_tax_total),
           ss_tax |-> w.ss_tax,
           medicare_tax |-> w.medicare_tax,
           post_tax_deductions |-> post_tax_total,
           total_taxes |-> TotalTaxes(w, StateTax(g.gross - pre_tax_total)),
           net |-> NetPay(g.gross, pre_tax_total,
                          TotalTaxes(w, StateTax(g.gross - pre_tax_total)), post_tax_total) ]

\* The statements from taxable_gross on.
WithTotals(employee, g, pre_tax_total, post_tax_total) ==
    NetPayResult(g, pre_tax_total, post_tax_total,
                 WithholdWith(TaxArgs(employee, g.gross - pre_tax_total)))

\* The statements from the deduction loop on, g being the gross pay.
WithGross(employee, deds, g) ==
    WithTotals(employee, g, BucketTotal(deds, g.gross, TRUE), BucketTotal(deds, g.gross, FALSE))

calculate_net_pay(employee, deds_table, hours, overtime_hours) ==
    IF NotActive(employee)
    THEN [ ok |-> FALSE, error |-> "not active" ]
    ELSE WithGross(employee, get_deductions(deds_table, employee.id),
                   GrossPay(employee, hours, overtime_hours))

\* ------------------------------------------------------------------------
\* PayrollService.generate_paystub
\* ------------------------------------------------------------------------

PaystubLine(label, amount, ytd_amount, is_deduction) ==
    [ label |-> label, amount |-> amount, ytd_amount |-> ytd_amount, is_deduction |-> is_deduction ]

PaystubLines(employee, calc) ==
    << PaystubLine("Regular Pay", calc.gross, employee.ytd_gross + calc.gross, FALSE) >>
    \o (IF calc.overtime_hours # <<>> /\ calc.overtime_hours[1] > 0
        THEN << PaystubLine("Overtime", calc.gross, employee.ytd_gross, FALSE) >>
        ELSE << >>)
    \o << PaystubLine("Pre-Tax Deductions", calc.pre_tax_deductions, employee.ytd_deductions, TRUE),
          PaystubLine("Federal Income Tax", calc.federal_tax, employee.ytd_federal_tax + calc.federal_tax, TRUE),
          PaystubLine("Social Security Tax", calc.ss_tax, employee.ytd_ss_tax + calc.ss_tax, TRUE),
          PaystubLine("Medicare Tax", calc.medicare_tax, employee.ytd_medicare_tax + calc.medicare_tax, TRUE),
          PaystubLine("State Tax", calc.state_tax, 0, TRUE) >>

\* Paystub(...) as generate_paystub builds it from the employee object and calc.
BuildPaystub(employee, pay_year, calc) ==
    [ employee_id |-> employee.id,
      pay_year |-> pay_year,
      regular_hours |-> calc.regular_hours,
      overtime_hours |-> calc.overtime_hours,
      gross_pay |-> calc.gross,
      federal_income_tax |-> calc.federal_tax,
      state_income_tax |-> calc.state_tax,
      ss_tax |-> calc.ss_tax,
      medicare_tax |-> calc.medicare_tax,
      pre_tax_deductions |-> calc.pre_tax_deductions,
      post_tax_deductions |-> calc.post_tax_deductions,
      net_pay |-> calc.net,
      lines |-> PaystubLines(employee, calc),
      ytd_gross |-> employee.ytd_gross + calc.gross,
      ytd_net |-> employee.ytd_gross ]

\* str(h) if h else None
FalsyToNone(h) == IF h = <<0>> THEN <<>> ELSE h

\* The row save_paystub inserts: the lines are not stored.
PaystubRow(stub) ==
    [ employee_id |-> stub.employee_id,
      pay_year |-> stub.pay_year,
      regular_hours |-> FalsyToNone(stub.regular_hours),
      overtime_hours |-> FalsyToNone(stub.overtime_hours),
      gross_pay |-> stub.gross_pay,
      federal_income_tax |-> stub.federal_income_tax,
      state_income_tax |-> stub.state_income_tax,
      ss_tax |-> stub.ss_tax,
      medicare_tax |-> stub.medicare_tax,
      pre_tax_deductions |-> stub.pre_tax_deductions,
      post_tax_deductions |-> stub.post_tax_deductions,
      net_pay |-> stub.net_pay,
      ytd_gross |-> stub.ytd_gross,
      ytd_net |-> stub.ytd_net ]

\* self.db.save_paystub(stub) and self.db.update_ytd(...): each runs in a
\* transaction of its own (each opens, commits and closes its own connection),
\* so an exception out of update_ytd leaves the committed paystub row behind.
Persist(emps, stubs, employee, calc, stub, fault) ==
    IF fault = "save_paystub" \/ employee.id \notin DOMAIN emps
    THEN [ ok |-> FALSE, error |-> "save_paystub", employees |-> emps, paystubs |-> stubs ]
    ELSE IF fault = "update_ytd"
    THEN [ ok |-> FALSE, error |-> "update_ytd", employees |-> emps,
           paystubs |-> Append(stubs, PaystubRow(stub)) ]
    ELSE [ ok |-> TRUE, stub |-> stub,
           employees |-> update_ytd(emps, employee.id, calc.gross, calc.federal_tax,
                                    calc.ss_tax, calc.medicare_tax,
                                    calc.pre_tax_deductions + calc.post_tax_deductions),
           paystubs |-> Append(stubs, PaystubRow(stub)) ]

\* The statements after calc = self.calculate_net_pay(...): an exception out
\* of it leaves generate_paystub with the tables as they were.
AfterCalc(emps, stubs, employee, pay_year, calc, fault) ==
    IF ~calc.ok
    THEN [ ok |-> FALSE, error |-> calc.error, employees |-> emps, paystubs |-> stubs ]
    ELSE Persist(emps, stubs, employee, calc, BuildPaystub(employee, pay_year, calc), fault)

\* generate_paystub on the tables (emps, stubs): the tables it leaves and what
\* it returns or raises.
generate_paystub(emps, stubs, deds_table, employee, pay_year, hours, overtime_hours, fault) ==
    AfterCalc(emps, stubs, employee, pay_year,
              calculate_net_pay(employee, deds_table, hours, overtime_hours), fault)

\* ------------------------------------------------------------------------
\* PayrollService.bulk_process
\* ------------------------------------------------------------------------

\* The locals stubs and errors and the tables after one entry's run r.
BulkStep(acc, emp, r) ==
    [ employees |-> r.employees,
      paystubs  |-> r.paystubs,
      stubs     |-> IF r.ok THEN Append(acc.stubs, r.stub) ELSE acc.stubs,
      errors    |-> IF r.ok THEN acc.errors ELSE Append(acc.errors, <<emp.id, r.error>>) ]

\* The for loop from entry i on; acc holds the tables and the locals stubs and
\* errors. The except clause records the failure and the loop goes on.
RECURSIVE BulkLoop(_, _, _, _, _, _)
BulkLoop(acc, deds_table, batch, pay_year, faults, i) ==
    IF i > Len(batch) THEN acc
    ELSE BulkLoop(BulkStep(acc, batch[i],
                           generate_paystub(acc.employees, acc.paystubs, deds_table, batch[i],
                                            pay_year, <<>>, <<>>, faults[i])),
                  deds_table, batch, pay_year, faults, i + 1)

\* The tables bulk_process leaves, its locals at the end, and the value of
\* "return stubs".
BulkReturn(end) ==
    [ employees |-> end.employees, paystubs |-> end.paystubs,
      stubs |-> end.stubs, errors |-> end.errors,
      returned |-> [ stubs |-> end.stubs ] ]

bulk_process(emps, stubs, deds_table, batch, pay_year, faults) ==
    BulkReturn(BulkLoop([ employees |-> emps, paystubs |-> stubs, stubs |-> <<>>, errors |-> <<>> ],
                        deds_table, batch, pay_year, faults, 1))

\* ------------------------------------------------------------------------
\* PayrollService.year_end_summary
\* ------------------------------------------------------------------------

\* The rows of one employee, whatever the pay date.
GetPaystubsAnyYear(stubs, emp_id, year) ==
    SelectSeq(stubs, LAMBDA r : r.employee_id = emp_id)

\* PayrollDB.get_paystubs(emp_id, year): SELECT ... WHERE employee_id=? AND
\* pay_date LIKE '<year>%' (the order of the rows plays no part in the sums).
get_paystubs(stubs, emp_id, year) ==
    SelectSeq(stubs, LAMBDA r : r.employee_id = emp_id /\ r.pay_year = year)

\* sum(s.<field> for s in stubs)
SumField(rows, field) == SumSeq([ i \in DOMAIN rows |-> rows[i][field] ])

\* YearEndSummary(...) over the selected paystubs.
YearEndSummary(employee_id, year, stubs) ==
    [ employee_id |-> employee_id,
      year |-> year,
      ytd_gross |-> SumField(stubs, "gross_pay"),
      ytd_federal_tax |-> SumField(stubs, "federal_income_tax"),
      ytd_ss_tax |-> SumField(stubs, "ss_tax"),
      ytd_medicare_tax |-> SumField(stubs, "medicare_tax"),
      ytd_state_tax |-> SumField(stubs, "state_income_tax"),
      ytd_pre_tax_deductions |-> SumField(stubs, "pre_tax_deductions"),
      ytd_post_tax_deductions |-> SumField(stubs, "post_tax_deductions"),
      ytd_net |-> SumField(stubs, "net_pay"),
      w2_box1 |-> SumField(stubs, "gross_pay") - SumField(stubs, "pre_tax_deductions"),
      w2_box3 |-> Min(SumField(stubs, "gross_pay"), SS_WAGE_BASE),
      w2_box5 |-> SumField(stubs, "gross_pay") ]

year_end_summary(emps, stubs, employee_id, year) ==
    IF employee_id \notin DOMAIN emps
    THEN [ ok |-> FALSE, error |-> "not found" ]
    ELSE [ ok |-> TRUE,
           summary |-> YearEndSummary(employee_id, year, get_paystubs(stubs, employee_id, year)) ]

\* ------------------------------------------------------------------------
\* Operations
\* ------------------------------------------------------------------------

Init ==
    /\ employees = << >>
    /\ deductions = << >>
    /\ paystubs = << >>
    /\ held = << >>
    /\ resaved = {}
    /\ runs = << >>
    /\ last = NoCall
    /\ wt = NoWithhold
    /\ wtPrev = NoWithhold
    /\ procs = << >>

\* add_employee: a fresh id (the least of ids not in use), the row saved, the
\* object returned to the caller.
AddEmployee(ids, p) ==
    /\ ids \ DOMAIN employees # {}
    /\ LET id  == CHOOSE i \in ids \ DOMAIN employees :
                     \A j \in ids \ DOMAIN employees : i <= j
           emp == NewEmployee(id, p)
       IN  /\ employees' = employees @@ (id :> emp)
           /\ held' = held @@ (id :> emp)
           /\ last' = [ op |-> "add_employee" ]
    /\ UNCHANGED <<deductions, paystubs, resaved, runs, wt, wtPrev, procs>>

\* db.save_employee(Employee(**{**emp.__dict__, "status": s})): INSERT OR
\* REPLACE of the whole row, the YTD columns taken from the object.
SaveEmployee(e, s) ==
    /\ e \in DOMAIN held
    /\ LET emp == [ held[e] EXCEPT !.status = s ]
       IN  /\ employees' = [ employees EXCEPT ![e] = emp ]
           /\ last' = [ op |-> "save_employee" ]
    /\ resaved' = resaved \cup {e}
    /\ UNCHANGED <<deductions, paystubs, held, runs, wt, wtPrev, procs>>

\* db.save_employee(Employee(**{**emp.__dict__, "ytd_gross": ..., ...})): the
\* same INSERT OR REPLACE, on an object whose five YTD fields the caller set.
SaveEmployeeYtd(e, y) ==
    /\ e \in DOMAIN held
    /\ LET emp == [ held[e] EXCEPT !.ytd_gross = y.ytd_gross,
                                   !.ytd_federal_tax = y.ytd_federal_tax,
                                   !.ytd_ss_tax = y.ytd_ss_tax,
                                   !.ytd_medicare_tax = y.ytd_medicare_tax,
                                   !.ytd_deductions = y.ytd_deductions ]
       IN  /\ employees' = [ employees EXCEPT ![e] = emp ]
           /\ last' = [ op |-> "save_employee" ]
    /\ resaved' = resaved \cup {e}
    /\ UNCHANGED <<deductions, paystubs, held, runs, wt, wtPrev, procs>>

\* emp = db.get_employee(id): the caller now holds the stored row.
GetEmployee(e) ==
    /\ e \in DOMAIN employees
    /\ held[e] # employees[e]
    /\ held' = [ held EXCEPT ![e] = employees[e] ]
    /\ last' = [ op |-> "get_employee" ]
    /\ UNCHANGED <<employees, deductions, paystubs, resaved, runs, wt, wtPrev, procs>>

\* db.save_deduction with a fresh id.
SaveDeduction(e, t) ==
    /\ e \in DOMAIN employees
    /\ Len(deductions) < MaxDeductions
    /\ deductions' = Append(deductions,
                            [ employee_id |-> e, deduction_type |-> t.deduction_type,
                              amount |-> t.amount, is_percentage |-> t.is_percentage,
                              active |-> t.active ])
    /\ last' = [ op |-> "save_deduction" ]
    /\ UNCHANGED <<employees, paystubs, held, resaved, runs, wt, wtPrev, procs>>

\* What a caller sees of a call: the value returned (none when it raised) and
\* the exception raised (none when it returned).
Returned(r, value) == IF r.ok THEN << value >> ELSE << >>

Raised(r) == IF r.ok THEN << >> ELSE << r.error >>

\* The call of withhold_taxes a run makes: none when the status guard raised.
WithholdCalls(employee, deds_table, hours, overtime_hours) ==
    IF NotActive(employee) THEN << >>
    ELSE << WithholdArgs(employee, deds_table, hours, overtime_hours) >>

\* service.calculate_net_pay(emp, hours, overtime_hours) on the object the
\* caller holds.
CalculateNetPay(e, hours, overtime_hours) ==
    /\ e \in DOMAIN held
    /\ \E calc \in { calculate_net_pay(held[e], deductions, hours, overtime_hours) } :
          last' = [ op |-> "calculate_net_pay",
                    emp |-> held[e],
                    deds |-> get_deductions(deductions, e),
                    hours |-> hours,
                    overtime_hours |-> overtime_hours,
                    fault |-> "none",
                    ok |-> calc.ok,
                    ret |-> Returned(calc, calc),
                    raised |-> Raised(calc),
                    withheld |-> WithholdCalls(held[e], deductions, hours, overtime_hours),
                    before_row |-> employees[e],
                    before_count |-> Len(paystubs),
                    after_row |-> employees[e],
                    after_count |-> Len(paystubs) ]
    /\ UNCHANGED <<employees, deductions, paystubs, held, resaved, runs, wt, wtPrev, procs>>

\* service.generate_paystub(emp, period_start, period_end, pay_date, hours,
\* overtime_hours) on the object the caller holds.
GeneratePaystub(e, pay_year, hours, overtime_hours, fault) ==
    /\ e \in DOMAIN held
    /\ Len(paystubs) < MaxPaystubs
    /\ \E r \in { generate_paystub(employees, paystubs, deductions, held[e], pay_year,
                                   hours, overtime_hours, fault) } :
           /\ employees' = r.employees
           /\ paystubs' = r.paystubs
           /\ runs' = IF r.ok THEN Append(runs, r.stub) ELSE runs
           /\ last' = [ op |-> "generate_paystub",
                        emp |-> held[e],
                        deds |-> get_deductions(deductions, e),
                        hours |-> hours,
                        overtime_hours |-> overtime_hours,
                        fault |-> fault,
                        ok |-> r.ok,
                        ret |-> IF r.ok THEN << r.stub >> ELSE << >>,
                        raised |-> Raised(r),
                        withheld |-> WithholdCalls(held[e], deductions, hours, overtime_hours),
                        before_row |-> employees[e],
                        before_count |-> Len(paystubs),
                        after_row |-> r.employees[e],
                        after_count |-> Len(r.paystubs) ]
    /\ UNCHANGED <<deductions, held, resaved, wt, wtPrev, procs>>

\* service.year_end_summary(employee_id, year)
YearEndSummaryCall(e, year) ==
    /\ \E r \in { year_end_summary(employees, paystubs, e, year) } :
          last' = [ op |-> "year_end_summary",
                    emp_id |-> e,
                    year |-> year,
                    ok |-> r.ok,
                    ret |-> IF r.ok THEN << r.summary >> ELSE << >>,
                    raised |-> Raised(r) ]
    /\ UNCHANGED <<employees, deductions, paystubs, held, resaved, runs, wt, wtPrev, procs>>

\* db.update_ytd(e, gross, federal, ss, medicare, deductions), the ledger
\* write of a run, called on its own; an id without a row updates nothing.
UpdateYtdCall(e, y) ==
    /\ e \in DOMAIN employees => employees[e].ytd_gross < MaxYtdUpdates * y.ytd_gross
    /\ employees' = update_ytd(employees, e, y.ytd_gross, y.ytd_federal_tax, y.ytd_ss_tax,
                               y.ytd_medicare_tax, y.ytd_deductions)
    /\ last' = [ op |-> "update_ytd", emp_id |-> e ]
    /\ UNCHANGED <<deductions, paystubs, held, resaved, runs, wt, wtPrev, procs>>

\* db.save_paystub(stub), the paystub write of a run, called on its own; the
\* foreign key on employee_id refuses a row without its employee.
SavePaystubCall(e, row) ==
    /\ Len(paystubs) < MaxStoredPaystubs
    /\ row.employee_id = e
    /\ paystubs' = IF e \in DOMAIN employees THEN Append(paystubs, row) ELSE paystubs
    /\ last' = [ op |-> "save_paystub", emp_id |-> e, ok |-> e \in DOMAIN employees ]
    /\ UNCHANGED <<employees, deductions, held, resaved, runs, wt, wtPrev, procs>>

\* The batches a caller passes: the held objects of distinct employees, in any
\* order.
Batches ==
    { b \in UNION { [1 .. n -> DOMAIN held] : n \in 1 .. MaxBatch } :
        \A i, j \in DOMAIN b : i # j => b[i] # b[j] }

BulkProcess(ids, pay_year, faults) ==
    /\ \E batch \in { [ i \in DOMAIN ids |-> held[ids[i]] ] } :
       \E r \in { bulk_process(employees, paystubs, deductions, batch, pay_year, faults) } :
           /\ employees' = r.employees
           /\ paystubs' = r.paystubs
           /\ runs' = runs \o r.stubs
           /\ last' = [ op |-> "bulk_process",
                        batch |-> batch,
                        pay_year |-> pay_year,
                        faults |-> faults,
                        stubs |-> r.stubs,
                        errors |-> r.errors,
                        returned |-> r.returned,
                        before_employees |-> employees,
                        before_paystubs |-> paystubs,
                        after_employees |-> r.employees,
                        after_paystubs |-> r.paystubs ]
    /\ UNCHANGED <<deductions, held, resaved, wt, wtPrev, procs>>

\* One step of a payroll process ("run" of main: emp = svc.db.get_employee(id),
\* then svc.generate_paystub(emp, period, hours)), from its position pc:
\*   start: get_employee reads the stored row into the local emp;
\*   calc:  calculate_net_pay on emp (get_deductions reads the table), then the
\*          Paystub object is built; an exception ends the process;
\*   save:  db.save_paystub, a transaction of its own;
\*   ytd:   db.update_ytd, a transaction of its own.
\* Each step reads or writes the tables once; calc is the outcome of
\* calculate_net_pay on the process's emp when the process stands at calc.
ProcAdvance(proc, emps, stubs, calc) ==
    CASE proc.pc = "start" ->
           [ proc |-> [ proc EXCEPT !.pc = "calc", !.emp = << emps[proc.emp_id] >> ],
             employees |-> emps, paystubs |-> stubs ]
      [] proc.pc = "calc" /\ ~calc.ok ->
           [ proc |-> [ proc EXCEPT !.pc = "raised", !.raised = << calc.error >> ],
             employees |-> emps, paystubs |-> stubs ]
      [] proc.pc = "calc" /\ calc.ok ->
           [ proc |-> [ proc EXCEPT !.pc = "save", !.calc = << calc >>,
                                    !.stub = << BuildPaystub(proc.emp[1], proc.pay_year, calc) >> ],
             employees |-> emps, paystubs |-> stubs ]
      [] proc.pc = "save" ->
           [ proc |-> [ proc EXCEPT !.pc = "ytd" ],
             employees |-> emps, paystubs |-> Append(stubs, PaystubRow(proc.stub[1])) ]
      [] proc.pc = "ytd" ->
           [ proc |-> [ proc EXCEPT !.pc = "done" ],
             employees |-> update_ytd(emps, proc.emp_id, proc.calc[1].gross,
                                      proc.calc[1].federal_tax, proc.calc[1].ss_tax,
                                      proc.calc[1].medicare_tax,
                                      proc.calc[1].pre_tax_deductions
                                        + proc.calc[1].post_tax_deductions),
             paystubs |-> stubs ]

\* The outcome of calculate_net_pay a process at calc gets; no call elsewhere.
ProcCalc(proc, deds_table) ==
    IF proc.pc = "calc"
    THEN calculate_net_pay(proc.emp[1], deds_table, << >>, << >>)
    ELSE [ ok |-> FALSE, error |-> "no call" ]

ProcFinished(proc) == proc.pc \in {"done", "raised"}

ProcStep(p) ==
    /\ p \in DOMAIN procs
    /\ ~ProcFinished(procs[p])
    /\ \E calc \in { ProcCalc(procs[p], deductions) } :
       \E r \in { ProcAdvance(procs[p], employees, paystubs, calc) } :
           /\ procs' = [ procs EXCEPT ![p] = r.proc ]
           /\ employees' = r.employees
           /\ paystubs' = r.paystubs
    /\ UNCHANGED <<deductions, held, resaved, runs, last, wt, wtPrev>>

\* ------------------------------------------------------------------------
\* Specifications
\* ------------------------------------------------------------------------

\* Payroll runs of one employee: add, save, re-read, deduct, run.
Next ==
    \/ \E p \in Profiles : AddEmployee(LedgerIds, p)
    \/ \E e \in LedgerIds, s \in Statuses : SaveEmployee(e, s)
    \/ \E e \in LedgerIds : GetEmployee(e)
    \/ \E e \in LedgerIds, t \in DeductionTemplates : SaveDeduction(e, t)
    \/ \E e \in LedgerIds, h \in HoursArgs, o \in OvertimeArgs : CalculateNetPay(e, h, o)
    \/ \E e \in LedgerIds, y \in Years, h \in HoursArgs, o \in OvertimeArgs, f \in Faults :
          GeneratePaystub(e, y, h, o, f)

Spec == Init /\ [][Next]_vars

\* A batch run over several employees: the employees are set up (added, some
\* put on leave or terminated, some re-read), then one batch is run.
BatchNotRun == last.op # "bulk_process"

BulkProfiles == { p \in Profiles : p.filing_status \in {"single", "married"} }

BulkYears == { y \in Years : y + 1 \in Years }

BulkFaults == Faults \ {"save_paystub"}

NextBulk ==
    \/ BatchNotRun /\ \E p \in BulkProfiles : AddEmployee(BulkIds, p)
    \/ BatchNotRun /\ \E e \in BulkIds, s \in Statuses : SaveEmployee(e, s)
    \/ BatchNotRun /\ \E e \in BulkIds : GetEmployee(e)
    \/ BatchNotRun /\ \E ids \in Batches, y \in BulkYears :
          \E faults \in [DOMAIN ids -> BulkFaults] : BulkProcess(ids, y, faults)

SpecBulk == Init /\ [][NextBulk]_vars

\* ---- the repository and service operations on one ledger ----

\* YTD figures of an Employee object a caller saves.
LedgerYtd ==
    { [ ytd_gross |-> g * CENTS, ytd_federal_tax |-> (g \div 10) * CENTS,
        ytd_ss_tax |-> (g \div 20) * CENTS, ytd_medicare_tax |-> (g \div 50) * CENTS,
        ytd_deductions |-> (g \div 25) * CENTS ] : g \in {0, 50000, 150000} }

NextLedger ==
    \/ \E p \in Profiles : AddEmployee(LedgerIds, p)
    \/ \E e \in LedgerIds, s \in Statuses : SaveEmployee(e, s)
    \/ \E e \in LedgerIds, y \in LedgerYtd : SaveEmployeeYtd(e, y)
    \/ \E e \in LedgerIds : GetEmployee(e)
    \/ \E e \in LedgerIds, t \in DeductionTemplates : SaveDeduction(e, t)
    \/ \E e \in LedgerIds, y \in BulkYears, f \in BulkFaults :
          GeneratePaystub(e, y, << >>, << >>, f)
    \/ \E ids \in Batches, y \in BulkYears :
          \E faults \in [DOMAIN ids -> BulkFaults] : BulkProcess(ids, y, faults)
    \/ \E e \in LedgerIds, y \in BulkYears : YearEndSummaryCall(e, y)

SpecLedger == Init /\ [][NextLedger]_vars

\* ---- calculate_net_pay as a function of its inputs ----

\* Year-to-date figures a stored row may carry: (ytd_gross, ytd_ss_tax).
YtdSamples ==
    { <<0, 0>>, <<150000 * CENTS, 9300 * CENTS>>, <<199000 * CENTS, 1045320>> }

CalcEmployees ==
    { [ NewEmployee(1, p) EXCEPT !.status = s, !.ytd_gross = y[1], !.ytd_ss_tax = y[2] ] :
        p \in Profiles, s \in Statuses, y \in YtdSamples }

DeductionRows(e) ==
    { [ employee_id |-> e, deduction_type |-> t.deduction_type, amount |-> t.amount,
        is_percentage |-> t.is_percentage, active |-> t.active ] : t \in DeductionTemplates }

InitCalc ==
    /\ \E emp \in CalcEmployees :
          /\ employees = (1 :> emp)
          /\ held = (1 :> emp)
    /\ deductions \in UNION { [1 .. n -> DeductionRows(1)] : n \in 0 .. MaxCalcDeductions }
    /\ paystubs = << >>
    /\ resaved = {}
    /\ runs = << >>
    /\ last = NoCall
    /\ wt = NoWithhold
    /\ wtPrev = NoWithhold
    /\ procs = << >>

NextCalc ==
    \E h \in HoursArgs, o \in OvertimeArgs : CalculateNetPay(1, h, o)

SpecCalc == InitCalc /\ [][NextCalc]_vars

\* ---- year_end_summary as a function of the stored paystubs ----

SummaryIds == {1, 2}

\* gross_pay and pre_tax_deductions of a stored paystub.
StubAmounts ==
    { <<2000 * CENTS, 200 * CENTS>>, <<100000 * CENTS, 0>>, <<180000 * CENTS, 5000 * CENTS>> }

\* A row of the paystubs table as save_paystub stores it.
StoredStub(e, y, a) ==
    [ employee_id |-> e,
      pay_year |-> y,
      regular_hours |-> << >>,
      overtime_hours |-> << >>,
      gross_pay |-> a[1],
      federal_income_tax |-> a[1] \div 10,
      state_income_tax |-> a[1] \div 20,
      ss_tax |-> a[1] \div 25,
      medicare_tax |-> a[1] \div 50,
      pre_tax_deductions |-> a[2],
      post_tax_deductions |-> 0,
      net_pay |-> a[1] - a[2] - a[1] \div 10 - a[1] \div 20 - a[1] \div 25 - a[1] \div 50,
      ytd_gross |-> a[1],
      ytd_net |-> 0 ]

StoredStubs == { StoredStub(e, y, a) : e \in SummaryIds, y \in Years, a \in StubAmounts }

InitYear ==
    /\ employees = [ e \in SummaryIds |->
                       NewEmployee(e, CHOOSE p \in Profiles : p.pay_frequency = "biweekly") ]
    /\ held = employees
    /\ paystubs \in UNION { [1 .. n -> StoredStubs] : n \in 0 .. MaxStoredPaystubs }
    /\ deductions = << >>
    /\ resaved = {}
    /\ runs = << >>
    /\ last = NoCall
    /\ wt = NoWithhold
    /\ wtPrev = NoWithhold
    /\ procs = << >>

NextYear ==
    \E e \in SummaryIds \cup {Cardinality(SummaryIds) + 1}, y \in Years : YearEndSummaryCall(e, y)

SpecYear == InitYear /\ [][NextYear]_vars

\* ---- two payroll processes on one employee and one pay period ----

Runners == {1, 2}

RaceYear == CHOOSE y \in BulkYears : TRUE

RaceEmployees == { emp \in CalcEmployees : emp.status = "active" }

NewProc(e, pay_year) ==
    [ pc |-> "start", emp_id |-> e, pay_year |-> pay_year,
      emp |-> << >>, calc |-> << >>, stub |-> << >>, raised |-> << >> ]

\* last keeps the tables the processes started from.
InitRace ==
    /\ \E emp \in RaceEmployees :
          /\ employees = (1 :> emp)
          /\ held = (1 :> emp)
          /\ last = [ op |-> "concurrent_runs", before_employees |-> (1 :> emp) ]
    /\ deductions \in UNION { [1 .. n -> DeductionRows(1)] : n \in 0 .. MaxDeductions }
    /\ paystubs = << >>
    /\ resaved = {}
    /\ runs = << >>
    /\ wt = NoWithhold
    /\ wtPrev = NoWithhold
    /\ procs = [ p \in Runners |-> NewProc(1, RaceYear) ]

NextRace == \E p \in Runners : ProcStep(p)

SpecRace == InitRace /\ [][NextRace]_vars

\* The two runs one after the other on the tables (emps, no paystubs), the
\* second on the row the first left.
SequentialSecond(first, deds_table, e, pay_year) ==
    [ first |-> first,
      second |-> generate_paystub(first.employees, first.paystubs, deds_table,
                                  first.employees[e], pay_year, << >>, << >>, "none") ]

SequentialRuns(emps, deds_table, e, pay_year) ==
    SequentialSecond(generate_paystub(emps, << >>, deds_table, emps[e], pay_year,
                                      << >>, << >>, "none"),
                     deds_table, e, pay_year)

\* ---- runs and ledger writes among several employees ----

FrameIds == {1, 2}

FrameStatuses == {"on_leave"}

FrameDeductions == { t \in DeductionTemplates : t.deduction_type = "pre_tax_hsa" }

FrameYtd == { y \in LedgerYtd : y.ytd_gross = 50000 * CENTS }

FrameStubs ==
    { r \in StoredStubs : r.pay_year = RaceYear /\ r.gross_pay = 2000 * CENTS }

\* No storage fault is injected: a run is made with the storage working.
FrameFaults == {"none"}

\* The employees are set up before the first run or ledger write.
SettingUp == last.op \in {"none", "add_employee", "save_employee", "get_employee", "save_deduction"}

NextFrame ==
    \/ SettingUp /\ \E p \in BulkProfiles : AddEmployee(FrameIds, p)
    \/ SettingUp /\ \E e \in FrameIds, s \in FrameStatuses : SaveEmployee(e, s)
    \/ SettingUp /\ \E e \in FrameIds : GetEmployee(e)
    \/ SettingUp /\ \E e \in FrameIds, t \in FrameDeductions : SaveDeduction(e, t)
    \/ \E e \in FrameIds, y \in FrameYtd : UpdateYtdCall(e, y)
    \/ \E e \in FrameIds, r \in FrameStubs : SavePaystubCall(e, r)
    \/ \E e \in FrameIds, f \in FrameFaults : GeneratePaystub(e, RaceYear, << >>, << >>, f)
    \/ \E ids \in Batches :
          \E faults \in [DOMAIN ids -> FrameFaults] : BulkProcess(ids, RaceYear, faults)

SpecFrame == Init /\ [][NextFrame]_vars

\* ---- withhold_taxes as a function of its inputs ----

\* (gross, ytd_ss) pairs: rounding ties of both FICA rates, the remaining wage
\* base below, at and above the period gross, and the Medicare threshold.
FicaInputs ==
    { <<0, 0>>, <<250, 0>>, <<1000, 0>>,
      <<5000 * CENTS, 165000 * CENTS>>, <<3600 * CENTS, 165000 * CENTS>>,
      <<5000 * CENTS, 168600 * CENTS>>, <<5000 * CENTS, 199000 * CENTS>>,
      <<200000 * CENTS, 0>> }

\* annual_gross values: each schedule's bracket edges once the standard
\* deduction and the allowances are taken off, a cent beside them, and between.
AnnualInputs ==
    { 0, 14600 * CENTS, 14600 * CENTS + 1, 26200 * CENTS, 26200 * CENTS + 1,
      52000 * CENTS, 61750 * CENTS + 1, 115125 * CENTS, 206550 * CENTS + 1,
      258325 * CENTS, 623950 * CENTS + 1, 760400 * CENTS + 1, 2400000 * CENTS }

AllowanceInputs == {0, 1}

\* service.withhold_taxes(gross, annual_gross, filing_status, w4_allowances,
\* ytd_ss); wtPrev keeps the federal side of the call before it.
WithholdTaxes(gross, annual_gross, filing_status, w4_allowances, ytd_ss) ==
    /\ \E r \in { withhold_taxes(gross, annual_gross, filing_status, w4_allowances, ytd_ss) } :
          wt' = [ called |-> TRUE,
                  gross |-> gross,
                  annual_gross |-> annual_gross,
                  filing_status |-> filing_status,
                  w4_allowances |-> w4_allowances,
                  ytd_ss |-> ytd_ss,
                  ok |-> r.ok,
                  ret |-> Returned(r, r),
                  raised |-> Raised(r) ]
    /\ wtPrev' = IF wt.called
                 THEN [ called |-> TRUE,
                        annual_gross |-> wt.annual_gross,
                        filing_status |-> wt.filing_status,
                        w4_allowances |-> wt.w4_allowances,
                        ret |-> wt.ret ]
                 ELSE wtPrev
    /\ UNCHANGED <<employees, deductions, paystubs, held, resaved, runs, last, procs>>

\* Two calls, so that the second can be compared with the first.
NextTax ==
    /\ ~wtPrev.called
    /\ \E f \in FicaInputs, a \in AnnualInputs, s \in FilingStatuses, w \in AllowanceInputs :
          WithholdTaxes(f[1], a, s, w, f[2])

SpecTax == Init /\ [][NextTax]_vars

\* ------------------------------------------------------------------------
\* Properties
\* ------------------------------------------------------------------------

LastIsRun == last.op \in {"calculate_net_pay", "generate_paystub"}

\* The sum of one field over the paystubs the successful runs of employee e
\* returned.
RunSum(e, field) ==
    SumSeq([ i \in 1 .. Len(runs) |-> IF runs[i].employee_id = e THEN runs[i][field] ELSE 0 ])

\* The sum of one field over the stored paystub rows of employee e.
RowSum(e, field) ==
    SumSeq([ i \in 1 .. Len(paystubs) |->
               IF paystubs[i].employee_id = e THEN paystubs[i][field] ELSE 0 ])

YtdIsSumOfRuns ==
    /\ (last.op = "generate_paystub" /\ last.emp.status = "active" /\ last.fault = "none")
          => last.ret # << >>
    /\ \A e \in DOMAIN employees \ resaved :
          /\ employees[e].ytd_gross = RunSum(e, "gross_pay")
          /\ employees[e].ytd_federal_tax = RunSum(e, "federal_income_tax")
          /\ employees[e].ytd_ss_tax = RunSum(e, "ss_tax")
          /\ employees[e].ytd_medicare_tax = RunSum(e, "medicare_tax")
          /\ employees[e].ytd_deductions =
                RunSum(e, "pre_tax_deductions") + RunSum(e, "post_tax_deductions")

\* C3: the stored paystubs and the stored YTD increments go together: the YTD
\* gross of an employee is the sum of the gross pay of its stored paystub rows,
\* and a run that failed in save_paystub or update_ytd left neither behind.
PaystubAndLedgerTogether ==
    /\ \A e \in DOMAIN employees \ resaved :
          employees[e].ytd_gross = RowSum(e, "gross_pay")
    /\ (last.op = "generate_paystub" /\ ~last.ok) =>
          /\ last.after_count = last.before_count
          /\ last.after_row = last.before_row

\* The case C3 is about: a run that got as far as the storage layer and failed
\* there.
StorageFailedInRun ==
    /\ last.op = "generate_paystub"
    /\ last.raised \in { << "save_paystub" >>, << "update_ytd" >> }

\* C4: calculate_net_pay and generate_paystub on an employee object whose
\* status is not active raise the inactive-employee error and return nothing;
\* the call stores no paystub and changes no row of the employee.
InactiveEmployeeFails ==
    (LastIsRun /\ last.emp.status # "active") =>
        /\ last.raised = << "not active" >>
        /\ last.ret = << >>
        /\ last.withheld = << >>
        /\ last.after_count = last.before_count
        /\ last.after_row = last.before_row

\* An employee on leave, stored as such, was put through generate_paystub and
\* the call raised.
InactiveEmployeeRun ==
    /\ last.op = "generate_paystub"
    /\ last.emp.status = "on_leave"
    /\ employees[last.emp.id].status = "on_leave"
    /\ last.raised # << >>

\* C5: in a batch, every employee whose own run is a good one (active, no
\* storage fault) gets exactly one returned paystub, one stored paystub row and
\* one ledger update, wherever the failing entries of the batch stand.
BulkEverySuccessStored ==
    last.op = "bulk_process" =>
        \A i \in DOMAIN last.batch :
            (last.batch[i].status = "active" /\ last.faults[i] = "none") =>
                LET id == last.batch[i].id
                    returned == { k \in DOMAIN last.stubs : last.stubs[k].employee_id = id }
                    stored == { k \in DOMAIN last.after_paystubs :
                                  /\ k > Len(last.before_paystubs)
                                  /\ last.after_paystubs[k].employee_id = id }
                IN  /\ Cardinality(returned) = 1
                    /\ Cardinality(stored) = 1
                    /\ \A k \in returned :
                          last.after_employees[id].ytd_gross
                              = last.before_employees[id].ytd_gross + last.stubs[k].gross_pay

\* C6: the value bulk_process returns holds the paystubs and the
\* (employee_id, error) pairs of the failed entries, and the two together count
\* the batch.
BulkReturnsFailures ==
    last.op = "bulk_process" =>
        LET failures == IF "errors" \in DOMAIN last.returned
                        THEN last.returned.errors ELSE << >>
        IN  Len(last.returned.stubs) + Len(failures) = Len(last.batch)

\* C7: every call of withhold_taxes with gross >= 0 and ytd_ss >= 0 returns,
\* and its Social Security tax is min(gross, max(0, 168600 - ytd_ss)) * 0.062
\* rounded half up to the cent.
SocialSecurityTax ==
    wt.called =>
        /\ wt.ret # << >>
        /\ LET taxable == Min(wt.gross, Max(0, 16860000 - wt.ytd_ss))
               ss == wt.ret[1].ss_tax
           IN  /\ 1000 * ss - 500 <= 62 * taxable
               /\ 62 * taxable < 1000 * ss + 500

\* C8: a run for an active employee whose Social Security wages of the year
\* have reached 168,600 (the SS tax paid is the full 6.2% of the base) returns
\* with SS tax 0, and withhold_taxes is handed those wages as ytd_ss.
SsStopsAtWageBase ==
    (LastIsRun /\ last.emp.status = "active" /\ 1000 * last.emp.ytd_ss_tax >= 62 * 16860000) =>
        /\ last.ret # << >>
        /\ last.ret[1].ss_tax = 0
        /\ \A i \in DOMAIN last.withheld : last.withheld[i].ytd_ss >= 16860000

\* C9: calculate_net_pay on an active employee returns Medicare tax
\* round(gross * 1.45%) + round(extra * 0.9%), where extra is the part of the
\* period's wages that lifts the employee's cumulative gross wages over
\* 200,000.
MedicareOnCumulativeGross ==
    (last.op = "calculate_net_pay" /\ last.emp.status = "active") =>
        /\ last.ret # << >>
        /\ LET g == last.ret[1].taxable_gross
               extra == Min(g, Max(0, last.emp.ytd_gross + g - 20000000))
           IN  last.ret[1].medicare_tax
                   = QuantizeHalfUp(g, 145, 10000) + QuantizeHalfUp(extra, 9, 1000)

\* C10: every call of withhold_taxes returns; the annual tax of its bracket
\* walk is 0 at adjusted income 0, and of two calls under the same schedule the
\* one with the smaller adjusted income has the smaller or equal annual tax.
BracketTaxMonotone ==
    /\ wt.called =>
          /\ wt.ret # << >>
          /\ wt.ret[1].adj_annual = 0 => wt.ret[1].annual_tax = 0
    /\ (wt.called /\ wtPrev.called) =>
          /\ wtPrev.ret # << >>
          /\ ( /\ (wtPrev.filing_status = "married") = (wt.filing_status = "married")
               /\ wtPrev.ret[1].adj_annual <= wt.ret[1].adj_annual )
             => wtPrev.ret[1].annual_tax <= wt.ret[1].annual_tax

\* C11: every call of withhold_taxes with gross 0 and annual_gross 0 returns
\* federal, Social Security and Medicare tax 0, whatever the filing status,
\* the allowances and ytd_ss.
ZeroIncomeZeroTax ==
    (wt.called /\ wt.gross = 0 /\ wt.annual_gross = 0) =>
        /\ wt.ret # << >>
        /\ wt.ret[1].federal_tax = 0
        /\ wt.ret[1].ss_tax = 0
        /\ wt.ret[1].medicare_tax = 0

\* C12: calculate_net_pay on an active employee returns a federal withholding
\* equal to the annual bracket tax on the annualised taxable gross divided by
\* the periods per year of the employee's own pay frequency, rounded half up.
FederalPerPayFrequency ==
    (last.op = "calculate_net_pay" /\ last.emp.status = "active") =>
        /\ last.ret # << >>
        /\ LET periods == periods_per_year(last.emp.pay_frequency)
               annual  == AnnualTax(SelectBrackets(last.emp.filing_status),
                                    AdjAnnual(last.ret[1].taxable_gross * periods,
                                              last.emp.filing_status,
                                              last.emp.w4_allowances))
           IN  last.ret[1].federal_tax = QuantizeHalfUp(annual, 1, periods)

\* The effective amounts of one deduction on gross: the flat amount, or
\* gross * amount / 100 at a nearest cent (two of them on an exact half cent).
EffectiveAmounts(ded, gross) ==
    IF ded.is_percentage
    THEN { QuantizeHalfUp(gross, ded.amount, 100), QuantizeDefault(gross, ded.amount, 100) }
    ELSE { ded.amount }

\* The sums of effective amounts over the deductions of deds whose type is in
\* types.
RECURSIVE BucketSums(_, _, _)
BucketSums(deds, gross, types) ==
    IF deds = << >> THEN {0}
    ELSE { a + t : a \in (IF Head(deds).deduction_type \in types
                          THEN EffectiveAmounts(Head(deds), gross) ELSE {0}),
                   t \in BucketSums(Tail(deds), gross, types) }

YearEndSummaryTotals ==
    (last.op = "year_end_summary" /\ last.emp_id \in DOMAIN employees) =>
        /\ last.ret # << >>
        /\ LET r == last.ret[1]
               Total(field) ==
                   SumSeq([ i \in DOMAIN paystubs |->
                              IF /\ paystubs[i].employee_id = last.emp_id
                                 /\ paystubs[i].pay_year = last.year
                              THEN paystubs[i][field] ELSE 0 ])
           IN  /\ r.ytd_gross = Total("gross_pay")
               /\ r.ytd_federal_tax = Total("federal_income_tax")
               /\ r.ytd_ss_tax = Total("ss_tax")
               /\ r.ytd_medicare_tax = Total("medicare_tax")
               /\ r.ytd_state_tax = Total("state_income_tax")
               /\ r.ytd_pre_tax_deductions = Total("pre_tax_deductions")
               /\ r.ytd_post_tax_deductions = Total("post_tax_deductions")
               /\ r.ytd_net = Total("net_pay")
               /\ r.w2_box1 = Total("gross_pay") - Total("pre_tax_deductions")
               /\ r.w2_box3 = (IF Total("gross_pay") > 16860000 THEN 16860000
                               ELSE Total("gross_pay"))
               /\ r.w2_box3 <= 16860000
               /\ r.w2_box5 = Total("gross_pay")

\* A summary over paystubs above the wage base, with pre-tax deductions,
\* while a paystub of another year of the same employee is stored.
SummaryOverWageBase ==
    /\ last.op = "year_end_summary"
    /\ last.ret # << >>
    /\ last.ret[1].ytd_gross > 16860000
    /\ last.ret[1].ytd_pre_tax_deductions > 0
    /\ \E i \in DOMAIN paystubs :
          paystubs[i].employee_id = last.emp_id /\ paystubs[i].pay_year # last.year

\* C16: a generate_paystub run on an active employee with working storage
\* returns a paystub whose ytd_gross is the employee's stored YTD gross after
\* the run's ledger update and whose ytd_net is the employee's cumulative net
\* pay through and including this run, for every run of a sequence.
PaystubYtdSnapshots ==
    (last.op = "generate_paystub" /\ last.emp.status = "active" /\ last.fault = "none") =>
        /\ last.ret # << >>
        /\ last.ret[1].ytd_gross = last.after_row.ytd_gross
        /\ last.ret[1].ytd_net = RunSum(last.emp.id, "net_pay")

\* C17: over any sequence of add_employee, save_employee, save_deduction,
\* generate_paystub, bulk_process and year_end_summary calls, no step lowers
\* any of the five YTD accumulators of a stored employee, and a step that
\* changes one is a payroll run.
YtdNeverDecreases ==
    [][\A e \in DOMAIN employees :
          e \in DOMAIN employees' =>
              /\ employees'[e].ytd_gross >= employees[e].ytd_gross
              /\ employees'[e].ytd_federal_tax >= employees[e].ytd_federal_tax
              /\ employees'[e].ytd_ss_tax >= employees[e].ytd_ss_tax
              /\ employees'[e].ytd_medicare_tax >= employees[e].ytd_medicare_tax
              /\ employees'[e].ytd_deductions >= employees[e].ytd_deductions
              /\ (\/ employees'[e].ytd_gross # employees[e].ytd_gross
                  \/ employees'[e].ytd_federal_tax # employees[e].ytd_federal_tax
                  \/ employees'[e].ytd_ss_tax # employees[e].ytd_ss_tax
                  \/ employees'[e].ytd_medicare_tax # employees[e].ytd_medicare_tax
                  \/ employees'[e].ytd_deductions # employees[e].ytd_deductions)
                 => last'.op \in {"generate_paystub", "bulk_process"}]_vars

\* C18: in the paystub a generate_paystub run on an active employee with
\* working storage returns, the amounts of the earnings lines minus the amounts
\* of the deduction lines equal net_pay.
PaystubLinesSumToNet ==
    (last.op = "generate_paystub" /\ last.emp.status = "active" /\ last.fault = "none") =>
        /\ last.ret # << >>
        /\ SumSeq([ i \in DOMAIN last.ret[1].lines |->
                      IF last.ret[1].lines[i].is_deduction
                      THEN 0 - last.ret[1].lines[i].amount
                      ELSE last.ret[1].lines[i].amount ]) = last.ret[1].net_pay

\* C19: the period gross of a salaried employee, or of an hourly employee run
\* with no hours, is annual_salary / periods_per_year (52, 26, 24 or 12 by pay
\* frequency) rounded to the cent with an exact half-cent going up; it is the
\* gross a run of an active employee without deductions hands to the tax
\* calculation.
PeriodGrossHalfUp ==
    (last.op = "calculate_net_pay" /\ (~is_hourly(last.emp) \/ last.hours = << >>)) =>
        /\ period_gross(last.emp)
              = QuantizeHalfUp(last.emp.salary, 1,
                               CASE last.emp.pay_frequency = "weekly" -> 52
                                 [] last.emp.pay_frequency = "biweekly" -> 26
                                 [] last.emp.pay_frequency = "semi_monthly" -> 24
                                 [] last.emp.pay_frequency = "monthly" -> 12)
        /\ (last.emp.status = "active" /\ last.deds = << >>) =>
              /\ last.withheld # << >>
              /\ last.withheld[1].gross = period_gross(last.emp)

\* C20: a call of withhold_taxes with a filing status other than single and
\* married returns the federal tax of a single filer with the same income and
\* allowances: the adjusted income takes off the single standard deduction
\* 14,600 and the tax is that of the single schedule.
OtherStatusAsSingle ==
    (wt.called /\ wt.filing_status \notin {"single", "married"}) =>
        /\ wt.ret # << >>
        /\ wt.ret[1].adj_annual
              = Max(0, wt.annual_gross - 1460000 - wt.w4_allowances * W4_ALLOWANCE_2024)
        /\ wt.ret[1].annual_tax
              = AnnualTax(FEDERAL_BRACKETS_SINGLE_2024, wt.ret[1].adj_annual)
        /\ (wtPrev.called /\ wtPrev.filing_status = "single"
               /\ wtPrev.annual_gross = wt.annual_gross
               /\ wtPrev.w4_allowances = wt.w4_allowances) =>
              /\ wtPrev.ret # << >>
              /\ wt.ret[1].federal_tax = wtPrev.ret[1].federal_tax

\* C21: calculate_net_pay on an active hourly employee with hours supplied
\* returns regular = min(hours, 40), overtime = max(0, hours - 40) + the
\* explicit overtime hours, and gross = regular * rate + overtime * rate * 1.5
\* to the nearest cent, the salary playing no part; that gross is what a run
\* without deductions hands to the tax calculation.
HourlyGrossFromHours ==
    (/\ last.op = "calculate_net_pay"
     /\ last.emp.status = "active"
     /\ is_hourly(last.emp)
     /\ last.hours # << >>) =>
        LET h       == last.hours[1]
            reg     == IF h < 40 THEN h ELSE 40
            ot      == (IF h > 40 THEN h - 40 ELSE 0)
                       + (IF last.overtime_hours = << >> THEN 0 ELSE last.overtime_hours[1])
            twice   == 2 * reg * last.emp.hourly_rate + 3 * ot * last.emp.hourly_rate
        IN  /\ last.deds = << >> =>
                  /\ last.withheld # << >>
                  /\ Abs(2 * last.withheld[1].gross - twice) <= 1
            /\ last.ret # << >>
            /\ last.ret[1].regular_hours = << reg >>
            /\ last.ret[1].overtime_hours = << ot >>
            /\ Abs(2 * last.ret[1].gross - twice) <= 1

\* The tax amounts of a paystub.
StubTaxes(stub) ==
    << stub.federal_income_tax, stub.state_income_tax, stub.ss_tax, stub.medicare_tax >>

\* C22: when two concurrent payroll processes on one employee have both
\* finished, whatever the interleaving of their steps, both produced a paystub,
\* and the stored YTD accumulators and the tax amounts of the two paystubs are
\* those of the two runs made one after the other, the second computing from
\* the YTD the first left.
ConcurrentRunsSerializable ==
    (procs # << >> /\ \A p \in DOMAIN procs : ProcFinished(procs[p])) =>
        /\ \A p \in DOMAIN procs : procs[p].pc = "done"
        /\ \E seq \in { SequentialRuns(last.before_employees, deductions, 1, RaceYear) } :
              /\ seq.first.ok /\ seq.second.ok
              /\ employees = seq.second.employees
              /\ \/ /\ StubTaxes(procs[1].stub[1]) = StubTaxes(seq.first.stub)
                    /\ StubTaxes(procs[2].stub[1]) = StubTaxes(seq.second.stub)
                 \/ /\ StubTaxes(procs[2].stub[1]) = StubTaxes(seq.first.stub)
                    /\ StubTaxes(procs[1].stub[1]) = StubTaxes(seq.second.stub)

\* The stored paystub rows of employee e.
RowsOf(stubs, e) == SelectSeq(stubs, LAMBDA r : r.employee_id = e)

\* What a batch did for employee e: the row and the paystub rows it left, the
\* paystubs it returned and the errors it recorded for e.
BatchOutcome(r, e) ==
    [ row      |-> r.employees[e],
      rows     |-> RowsOf(r.paystubs, e),
      returned |-> RowsOf(r.stubs, e),
      errors   |-> { r.errors[k][2] : k \in { k \in DOMAIN r.errors : r.errors[k][1] = e } } ]

ReverseSeq(q) == [ i \in DOMAIN q |-> q[Len(q) + 1 - i] ]

====
